---- MODULE Spec2Model ----
(***************************************************************************)
(* Task triage pipeline of the factory task assistant: safety rules        *)
(* engine, due-date calculators, prediction cache and the submit_task      *)
(* orchestration over the SQLite store.                                    *)
(*                                                                         *)
(* A task text is a sequence of pieces; each piece is a run of             *)
(* non-whitespace characters or the single whitespace piece " ".  The      *)
(* characters of the text are the concatenation of its pieces, so          *)
(* str.lower() and str.split() are computed piece by piece.                *)
(***************************************************************************)
EXTENDS FiniteSets, Integers, Sequences, TLC

(* ------------------------------ bounds -------------------------------- *)
MaxTextLen == 3
MaxDay == 1

(* ------------------------- python primitives -------------------------- *)
None == "None"

NoResult == [unset |-> TRUE]

Whitespace == " "

Pieces == {"mold", "Mold", "urgent", "foreign", "object", "clean", "label", Whitespace}

Texts == UNION {[1..n -> Pieces] : n \in 0..MaxTextLen}

\* dict.get(key, default)
Get(dict, key, default) == IF key \in DOMAIN dict THEN dict[key] ELSE default

\* str.lower() of one piece
LowerPiece(piece) ==
    CASE piece = "Mold" -> "mold"
      [] piece = "Urgent" -> "urgent"
      [] OTHER -> piece

\* str.lower()
lower(text) == [i \in DOMAIN text |-> LowerPiece(text[i])]

\* str.split(): maximal runs of non-whitespace characters
RECURSIVE SplitFrom(_, _, _)
SplitFrom(text, i, cur) ==
    IF i > Len(text)
    THEN (IF cur = "" THEN <<>> ELSE <<cur>>)
    ELSE IF text[i] = Whitespace
         THEN (IF cur = "" THEN SplitFrom(text, i + 1, "")
                           ELSE <<cur>> \o SplitFrom(text, i + 1, ""))
         ELSE SplitFrom(text, i + 1, cur \o text[i])

split(text) == SplitFrom(text, 1, "")

\* str.strip(): the text without its leading and trailing whitespace
RECURSIVE strip(_)
strip(text) ==
    IF text = <<>> THEN <<>>
    ELSE IF text[1] = Whitespace THEN strip(Tail(text))
    ELSE IF text[Len(text)] = Whitespace THEN strip(SubSeq(text, 1, Len(text) - 1))
    ELSE text

\* sep.join(words)
RECURSIVE join(_, _)
join(sep, words) ==
    IF words = <<>> THEN ""
    ELSE IF Len(words) = 1 THEN words[1]
    ELSE words[1] \o sep \o join(sep, Tail(words))

(* --------------------- config/safety_rules_config --------------------- *)
CRITICAL_SAFETY_KEYWORDS ==
    {"contamination", "contaminated", "mold", "bacterial",
     "allergen", "allergy", "foreign object", "glass",
     "chemical", "toxic", "poison", "pest",
     "temperature", "cold chain", "freezer", "refrigerator",
     "expired", "spoiled", "rotten",
     "recall", "shutdown", "emergency",
     "immediate", "immediately", "urgent", "asap"}

WARNING_KEYWORDS ==
    {"clean", "sanitize", "disinfect", "wash",
     "hazard", "risk", "dangerous", "unsafe",
     "failure", "broken", "leaking",
     "inspection", "audit", "compliance"}

ALWAYS_SAFETY_CRITICAL_CATEGORIES == {"Hygiene & Safety", "Quality Control"}

MINIMUM_PRIORITY_BY_CATEGORY ==
    [c \in {"Hygiene & Safety", "Quality Control", "Production", "Maintenance", "Packaging"} |->
        CASE c = "Hygiene & Safety" -> "High"
          [] c = "Quality Control" -> "Medium"
          [] OTHER -> "Low"]

ConfiguredCategories == DOMAIN MINIMUM_PRIORITY_BY_CATEGORY

\* a category label that no table configures
Categories == ConfiguredCategories \cup {"Unknown"}

Priorities == {"Low", "Medium", "High"}

priority_order == [p \in Priorities |-> CASE p = "Low" -> 0 [] p = "Medium" -> 1 [] p = "High" -> 2]

(* ------------------------- SafetyRulesEngine -------------------------- *)
\* every token that is not critical counted as a warning
check_safety_keywords_ElseWarning(task_description) ==
    LET words == split(lower(task_description))
        critical_found == SelectSeq(words, LAMBDA w : w \in CRITICAL_SAFETY_KEYWORDS)
        warning_found == SelectSeq(words, LAMBDA w : w \notin CRITICAL_SAFETY_KEYWORDS)
    IN  [has_critical |-> critical_found # <<>>,
         critical_keywords |-> critical_found,
         warning_count |-> Len(warning_found)]

check_safety_keywords(task_description) ==
    LET words == split(lower(task_description))
        critical_found == SelectSeq(words, LAMBDA w : w \in CRITICAL_SAFETY_KEYWORDS)
        warning_found == SelectSeq(words, LAMBDA w : w \notin CRITICAL_SAFETY_KEYWORDS
                                                    /\ w \in WARNING_KEYWORDS)
    IN  [has_critical |-> critical_found # <<>>,
         critical_keywords |-> critical_found,
         warning_count |-> Len(warning_found)]

\* Rule 1 without the overridden flag
Rule1_NoOverrideFlag(result, category) ==
    LET min_priority == Get(MINIMUM_PRIORITY_BY_CATEGORY, category, "Low")
    IN  IF Get(priority_order, result.ai_priority, 0) < Get(priority_order, min_priority, 0)
        THEN [result EXCEPT !.final_priority = min_priority,
                            !.override_reason = "Category '" \o category \o "' minimum is " \o min_priority,
                            !.audit_level = "WARNING"]
        ELSE result

\* Rule 1 firing also when the candidate equals the minimum
Rule1_AtOrBelow(result, category) ==
    LET min_priority == Get(MINIMUM_PRIORITY_BY_CATEGORY, category, "Low")
    IN  IF Get(priority_order, result.ai_priority, 0) <= Get(priority_order, min_priority, 0)
        THEN [result EXCEPT !.final_priority = min_priority,
                            !.was_overridden = TRUE,
                            !.override_reason = "Category '" \o category \o "' minimum is " \o min_priority,
                            !.audit_level = "WARNING"]
        ELSE result

\* Rule 1 setting the minimum whenever the candidate differs from it
Rule1_SetsMinimum(result, category) ==
    LET min_priority == Get(MINIMUM_PRIORITY_BY_CATEGORY, category, "Low")
    IN  IF Get(priority_order, result.ai_priority, 0) # Get(priority_order, min_priority, 0)
        THEN [result EXCEPT !.final_priority = min_priority,
                            !.was_overridden = TRUE,
                            !.override_reason = "Category '" \o category \o "' minimum is " \o min_priority,
                            !.audit_level = "WARNING"]
        ELSE result

\* Rule 1: category-based minimum priority
Rule1(result, category) ==
    LET min_priority == Get(MINIMUM_PRIORITY_BY_CATEGORY, category, "Low")
    IN  IF Get(priority_order, result.ai_priority, 0) < Get(priority_order, min_priority, 0)
        THEN [result EXCEPT !.final_priority = min_priority,
                            !.was_overridden = TRUE,
                            !.override_reason = "Category '" \o category \o "' minimum is " \o min_priority,
                            !.audit_level = "WARNING"]
        ELSE result

\* Rule 2 without the overridden flag
Rule2_NoOverrideFlag(result, has_critical) ==
    IF has_critical /\ result.final_priority # "High"
    THEN [result EXCEPT !.final_priority = "High",
                        !.override_reason = "Critical keywords detected: "
                                            \o join(", ", result.critical_keywords),
                        !.audit_level = "CRITICAL"]
    ELSE result

\* Rule 2: critical safety keywords always = High
Rule2(result, has_critical) ==
    IF has_critical /\ result.final_priority # "High"
    THEN [result EXCEPT !.final_priority = "High",
                        !.was_overridden = TRUE,
                        !.override_reason = "Critical keywords detected: "
                                            \o join(", ", result.critical_keywords),
                        !.audit_level = "CRITICAL"]
    ELSE result

\* Rule 3 firing whatever the current priority is
Rule3_NoHighCheck(result, category) ==
    IF category \in ALWAYS_SAFETY_CRITICAL_CATEGORIES
    THEN [result EXCEPT !.final_priority = "High",
                        !.was_overridden = TRUE,
                        !.override_reason = "Category '" \o category \o "' is safety-critical",
                        !.audit_level = "WARNING"]
    ELSE result

\* Rule 3 for 'Hygiene & Safety' alone
Rule3_OnlyHygiene(result, category) ==
    IF category = "Hygiene & Safety" /\ result.final_priority # "High"
    THEN [result EXCEPT !.final_priority = "High",
                        !.was_overridden = TRUE,
                        !.override_reason = "Category '" \o category \o "' is safety-critical",
                        !.audit_level = "WARNING"]
    ELSE result

\* Rule 3 leaving the audit level as it was
Rule3_NoAuditLevel(result, category) ==
    IF category \in ALWAYS_SAFETY_CRITICAL_CATEGORIES /\ result.final_priority # "High"
    THEN [result EXCEPT !.final_priority = "High",
                        !.was_overridden = TRUE,
                        !.override_reason = "Category '" \o category \o "' is safety-critical"]
    ELSE result

\* Rule 3: always-safety-critical categories are at least High
Rule3(result, category) ==
    IF category \in ALWAYS_SAFETY_CRITICAL_CATEGORIES /\ result.final_priority # "High"
    THEN [result EXCEPT !.final_priority = "High",
                        !.was_overridden = TRUE,
                        !.override_reason = "Category '" \o category \o "' is safety-critical",
                        !.audit_level = "WARNING"]
    ELSE result

InitialResult(kw, ai_priority) ==
    [final_priority |-> ai_priority,
     ai_priority |-> ai_priority,
     was_overridden |-> FALSE,
     override_reason |-> None,
     audit_level |-> "INFO",
     critical_keywords |-> kw.critical_keywords,
     warning_count |-> kw.warning_count]

apply_safety_rules(task_description, category, ai_priority) ==
    LET kw == check_safety_keywords(task_description)
        r0 == InitialResult(kw, ai_priority)
        r1 == Rule1(r0, category)
        r2 == Rule2(r1, kw.has_critical)
    IN  Rule3(r2, category)

\* the entry built by log_audit
audit_entry(now, task_id, task_description, category, ai_priority, safety_result) ==
    [timestamp |-> now,
     task_id |-> task_id,
     task_description |-> task_description,
     category |-> category,
     ai_priority |-> ai_priority,
     final_priority |-> safety_result.final_priority,
     was_overridden |-> safety_result.was_overridden,
     override_reason |-> safety_result.override_reason,
     audit_level |-> safety_result.audit_level,
     critical_keywords |-> safety_result.critical_keywords,
     warning_count |-> safety_result.warning_count]

\* the entry put in front of the log
log_audit_InFront(log, entry) == <<entry>> \o log

\* log_audit: self.audit_log.append(audit_entry)
log_audit(log, entry) == Append(log, entry)

\* get_audit_log: return self.audit_log
get_audit_log(log) == log

(* ------------------------ config/due_date_config ---------------------- *)
PRIORITY_HOURS == [p \in Priorities |-> CASE p = "High" -> 2 [] p = "Medium" -> 8 [] p = "Low" -> 24]

SHIFTS ==
    [s \in {"Morning", "Afternoon", "Night"} |->
        CASE s = "Morning" -> [start |-> 6, end |-> 14]
          [] s = "Afternoon" -> [start |-> 14, end |-> 22]
          [] s = "Night" -> [start |-> 22, end |-> 30]]

\* urgency multipliers in hundredths (0.75, 0.9, 1.0, 0.85, 1.0)
CATEGORY_URGENCY ==
    [c \in ConfiguredCategories |->
        CASE c = "Hygiene & Safety" -> 75
          [] c = "Quality Control" -> 90
          [] c = "Maintenance" -> 85
          [] OTHER -> 100]

(* ------------------------------ datetime ------------------------------ *)
\* an instant is a number of minutes since 00:00 of day 0
Minutes == {0, 30, 59}

Instants == {d * 1440 + h * 60 + m : d \in 0..MaxDay, h \in 0..23, m \in Minutes}

\* datetime.hour
hour(t) == (t % 1440) \div 60

\* datetime.replace(hour=h, minute=0, second=0, microsecond=0)
replace_hour(t, h) == (t \div 1440) * 1440 + h * 60

\* timedelta(hours=n), timedelta(days=n)
hours(n) == n * 60
days(n) == n * 1440

max(a, b) == IF a >= b THEN a ELSE b

min(a, b) == IF a <= b THEN a ELSE b

(* -------------------------- DueDateCalculator ------------------------- *)
get_current_shift(current_time) ==
    IF 6 <= hour(current_time) /\ hour(current_time) < 14 THEN "Morning"
    ELSE IF 14 <= hour(current_time) /\ hour(current_time) < 22 THEN "Afternoon"
    ELSE "Night"

\* int((1 - urgency_multiplier) * 100) in binary floating point:
\* (1 - 0.9) * 100 is 9.999999999999998, the other configured factors are exact
\* or round up ((1 - 0.85) * 100 is 15.000000000000002)
speedup_percent(urgency) == IF urgency = 90 THEN 9 ELSE 100 - urgency

explain(priority, category, base_hours, urgency, hours_available) ==
    priority \o " priority task (base: " \o ToString(base_hours) \o "h)"
    \o (IF urgency < 100
        THEN " -> " \o ToString(speedup_percent(urgency)) \o "% faster for " \o category
        ELSE "")
    \o " -> " \o ToString(hours_available) \o " hours available"

\* the due instant counted from the base hours instead of the hours available
calculate_due_date_FromBaseHours(priority, category, current_time) ==
    LET base_hours == Get(PRIORITY_HOURS, priority, 8)
        urgency == Get(CATEGORY_URGENCY, category, 100)
        hours_available == max(1, (base_hours * urgency) \div 100)
    IN  [due_datetime |-> current_time + hours(base_hours),
         hours_available |-> hours_available,
         shift |-> get_current_shift(current_time),
         explanation |-> explain(priority, category, base_hours, urgency, hours_available),
         priority |-> priority,
         category |-> category,
         created_at |-> current_time]

\* the product rounded to the nearest hour instead of truncated
calculate_due_date_Rounded(priority, category, current_time) ==
    LET base_hours == Get(PRIORITY_HOURS, priority, 8)
        urgency == Get(CATEGORY_URGENCY, category, 100)
        hours_available == max(1, (base_hours * urgency + 50) \div 100)
    IN  [due_datetime |-> current_time + hours(hours_available),
         hours_available |-> hours_available,
         shift |-> get_current_shift(current_time),
         explanation |-> explain(priority, category, base_hours, urgency, hours_available),
         priority |-> priority,
         category |-> category,
         created_at |-> current_time]

calculate_due_date(priority, category, current_time) ==
    LET base_hours == Get(PRIORITY_HOURS, priority, 8)
        urgency == Get(CATEGORY_URGENCY, category, 100)
        \* int(base_hours * urgency_multiplier), then the 1 hour minimum
        hours_available == max(1, (base_hours * urgency) \div 100)
    IN  [due_datetime |-> current_time + hours(hours_available),
         hours_available |-> hours_available,
         shift |-> get_current_shift(current_time),
         explanation |-> explain(priority, category, base_hours, urgency, hours_available),
         priority |-> priority,
         category |-> category,
         created_at |-> current_time]

(* --------------------- ShiftAwareDueDateCalculator -------------------- *)
\* end of the shift taken on the same calendar day even when it has passed
shift_end_SameDay(current_time) ==
    LET current_shift == get_current_shift(current_time)
    IN  IF current_shift = "Night"
        THEN replace_hour(current_time, 6)
        ELSE replace_hour(current_time, SHIFTS[current_shift].end)

\* end of the shift that contains current_time
shift_end(current_time) ==
    LET current_shift == get_current_shift(current_time)
    IN  IF current_shift = "Night"
        THEN (IF replace_hour(current_time, 6) <= current_time
              THEN replace_hour(current_time, 6) + days(1)
              ELSE replace_hour(current_time, 6))
        ELSE replace_hour(current_time, SHIFTS[current_shift].end)

\* the cap applied as soon as the due instant reaches the shift end
cap_to_shift_end_AtOrAfter(due_info, current_time) ==
    IF due_info.due_datetime >= shift_end(current_time)
    THEN [due_info EXCEPT
            !.due_datetime = shift_end(current_time),
            !.hours_available = (shift_end(current_time) - current_time) \div 60,
            !.explanation = due_info.explanation \o " [CAPPED TO SHIFT END]"]
    ELSE due_info

\* the due instant moved to the shift end also when it lies before it
cap_to_shift_end_Always(due_info, current_time) ==
    [due_info EXCEPT
        !.due_datetime = shift_end(current_time),
        !.hours_available = (shift_end(current_time) - current_time) \div 60,
        !.explanation = due_info.explanation \o " [CAPPED TO SHIFT END]"]

cap_to_shift_end(due_info, current_time) ==
    IF due_info.due_datetime > shift_end(current_time)
    THEN [due_info EXCEPT
            !.due_datetime = shift_end(current_time),
            \* int((shift_end - current_time).total_seconds() / 3600)
            !.hours_available = (shift_end(current_time) - current_time) \div 60,
            !.explanation = due_info.explanation \o " [CAPPED TO SHIFT END]"]
    ELSE due_info

\* the cap applied to High tasks of every category
calculate_due_date_shift_aware_AnyCategory(priority, category, current_time, respect_shift_boundary) ==
    LET due_info == calculate_due_date(priority, category, current_time)
    IN  IF priority = "High" /\ respect_shift_boundary
        THEN cap_to_shift_end(due_info, current_time)
        ELSE due_info

calculate_due_date_shift_aware(priority, category, current_time, respect_shift_boundary) ==
    LET due_info == calculate_due_date(priority, category, current_time)
    IN  IF priority = "High" /\ category = "Hygiene & Safety" /\ respect_shift_boundary
        THEN cap_to_shift_end(due_info, current_time)
        ELSE due_info

(* ----------------------- config/priority_keywords --------------------- *)
SAFETY_KEYWORDS ==
    {"clean", "sanitize", "disinfect", "contamination", "contaminated",
     "urgent", "immediately", "asap", "dangerous", "hazard", "risk",
     "health", "food safety", "allergy", "temperature", "bacteria", "mold",
     "expired", "disposal", "fire", "emergency", "shutdown"}

CATEGORY_PRIORITY_WEIGHTS ==
    [c \in ConfiguredCategories |->
        CASE c = "Hygiene & Safety" -> 3
          [] c = "Quality Control" -> 2
          [] c = "Production" -> 1
          [] c = "Maintenance" -> 1
          [] c = "Packaging" -> 0]

HIGH_PRIORITY_KEYWORDS ==
    {"urgent", "immediately", "asap", "critical", "contamination", "contaminated",
     "dangerous", "emergency", "shutdown", "broken", "failed", "health", "safety",
     "allergy", "expired"}

LOW_PRIORITY_KEYWORDS ==
    {"organize", "schedule", "plan", "nice to have", "optional", "when available"}

(* ---------------------- PriorityFeatureExtractor ---------------------- *)
urgent_words == {"immediately", "asap", "urgent", "critical", "emergency"}

equipment_words == {"tank", "conveyor", "mixer", "machine", "line", "motor", "pump", "valve"}

cleaning_words == {"clean", "sanitize", "disinfect", "wash", "scrub"}

\* sum(1 for word in words if word in keywords)
count_in(words, keywords) == Cardinality({i \in DOMAIN words : words[i] \in keywords})

extract_features(text, cat) ==
    LET words == split(lower(text))
    IN  [category_weight |-> Get(CATEGORY_PRIORITY_WEIGHTS, cat, 0),
         high_priority_keywords |-> count_in(words, HIGH_PRIORITY_KEYWORDS),
         low_priority_keywords |-> count_in(words, LOW_PRIORITY_KEYWORDS),
         safety_keywords |-> count_in(words, SAFETY_KEYWORDS),
         task_length |-> Len(words),
         has_urgent_words |-> IF \E i \in DOMAIN words : words[i] \in urgent_words
                              THEN 1 ELSE 0,
         equipment_count |-> count_in(words, equipment_words),
         cleaning_count |-> count_in(words, cleaning_words)]

\* the low-priority keywords added to the score
calculate_priority_score_LowKeywordsAdded(text, cat) ==
    LET features == extract_features(text, cat)
        raw == features.category_weight * 3
               + features.high_priority_keywords * 4
               + features.low_priority_keywords * 3
               + features.safety_keywords * 3
               + features.has_urgent_words * 4
               + features.equipment_count * 1
               + features.cleaning_count * 2
    IN  [score |-> max(0, min(20, raw)), features |-> features]

\* The score is counted in half points: the weights 1.5, 2, 1.5, 1.5, 2, 0.5
\* and 1 are 3, 4, 3, 3, 4, 1 and 2 half points, and the clamp to [0, 10] is
\* the clamp to 0..20 half points.
calculate_priority_score(text, cat) ==
    LET features == extract_features(text, cat)
        raw == features.category_weight * 3
               + features.high_priority_keywords * 4
               - features.low_priority_keywords * 3
               + features.safety_keywords * 3
               + features.has_urgent_words * 4
               + features.equipment_count * 1
               + features.cleaning_count * 2
    IN  [score |-> max(0, min(20, raw)), features |-> features]

(* --------------------------- DatabaseManager -------------------------- *)
\* md5 of the case-folded text, taken as collision-free: the hash stands for
\* the characters of the case-folded text
\* the hash of the text as written, without the case-folding
hash_task_description_CaseSensitive(text) == join("", text)

hash_task_description(text) == join("", lower(text))

\* rows of prediction_cache with the given hash
cache_rows(cache, task_hash) == {i \in DOMAIN cache : cache[i].task_hash = task_hash}

\* check_cache: the UPDATE of the hit count on a hit
cache_after_check(cache, text) ==
    [i \in DOMAIN cache |->
        IF cache[i].task_hash = hash_task_description(text)
        THEN [cache[i] EXCEPT !.cache_hit_count = @ + 1]
        ELSE cache[i]]

\* the first row of prediction_cache with the given hash (cursor.fetchone())
fetchone(cache, task_hash) ==
    cache[CHOOSE i \in cache_rows(cache, task_hash) :
            \A j \in cache_rows(cache, task_hash) : i <= j]

\* check_cache: the tuple returned
check_cache_result(cache, text) ==
    IF cache_rows(cache, hash_task_description(text)) # {}
    THEN LET row == fetchone(cache, hash_task_description(text))
         IN  <<TRUE, row.predicted_category, row.predicted_priority>>
    ELSE <<FALSE, None, None>>

\* an INSERT OR REPLACE: the offered prediction overwrites the stored one
cache_after_add_Replace(cache, text, predicted_category, predicted_priority) ==
    IF cache_rows(cache, hash_task_description(text)) # {}
    THEN [i \in DOMAIN cache |->
            IF cache[i].task_hash = hash_task_description(text)
            THEN [cache[i] EXCEPT !.predicted_category = predicted_category,
                                  !.predicted_priority = predicted_priority]
            ELSE cache[i]]
    ELSE Append(cache, [task_hash |-> hash_task_description(text),
                        task_description |-> text,
                        predicted_category |-> predicted_category,
                        predicted_priority |-> predicted_priority,
                        cache_hit_count |-> 0])

\* an INSERT into a table without the UNIQUE constraint
cache_after_add_NoUnique(cache, text, predicted_category, predicted_priority) ==
    Append(cache, [task_hash |-> hash_task_description(text),
                   task_description |-> text,
                   predicted_category |-> predicted_category,
                   predicted_priority |-> predicted_priority,
                   cache_hit_count |-> 0])

\* add_to_cache: the INSERT, refused by the UNIQUE constraint on task_hash
cache_after_add(cache, text, predicted_category, predicted_priority) ==
    IF cache_rows(cache, hash_task_description(text)) # {}
    THEN cache
    ELSE Append(cache, [task_hash |-> hash_task_description(text),
                        task_description |-> text,
                        predicted_category |-> predicted_category,
                        predicted_priority |-> predicted_priority,
                        cache_hit_count |-> 0])

\* add_to_cache: True after the INSERT, False on sqlite3.IntegrityError
add_to_cache_result(cache, text) == cache_rows(cache, hash_task_description(text)) = {}

\* SUM(cache_hit_count) over the rows from position i on
RECURSIVE SumHitCounts(_, _)
SumHitCounts(cache, i) ==
    IF i > Len(cache) THEN 0 ELSE cache[i].cache_hit_count + SumHitCounts(cache, i + 1)

\* get_cache_stats: COUNT(*), SUM and AVG of cache_hit_count; the aggregates
\* SUM and AVG of an empty table are NULL.  The average is kept as the pair
\* <<sum, count>> it is the quotient of.
get_cache_stats(cache) ==
    [total_cached |-> Len(cache),
     total_hits |-> IF Len(cache) = 0 THEN None ELSE SumHitCounts(cache, 1),
     avg_hits |-> IF Len(cache) = 0 THEN None ELSE <<SumHitCounts(cache, 1), Len(cache)>>]

(* ----------------------------- submit_task ---------------------------- *)
Procs == {"submit1", "submit2"}

\* the texts submitted and the instants datetime.now() returns
SubmitTexts == {<<"Mold">>, <<"mold">>, <<"label">>}

SubmitInstants == {10 * 60 + 30, 13 * 60 + 30}

\* what the vectorizer (lowercase=True) and the feature extractor (str.lower)
\* read of a text: the characters of the case-folded text
model_input(text) == join("", lower(text))

\* the exceptions of the loaded models and of the store
ModelErrors == {"categorization_model error", "priority_model error"}

StoreErrors == {"sqlite3.OperationalError"}

\* the branch taken after db.check_cache, classifying also on a hit
after_check_cache_AlwaysClassify(cache_hit) == "classify"

\* the branch taken after db.check_cache
after_check_cache(cache_hit) == IF cache_hit THEN "safety" ELSE "classify"

NoLocals ==
    [task_description |-> <<>>,
     cache_hit |-> FALSE,
     ai_category |-> None,
     ai_priority |-> None,
     safety_result |-> NoResult,
     final_priority |-> None,
     due_info |-> NoResult,
     task_id |-> 0,
     error |-> None]

\* a default prediction in place of the exception, and the call goes on
model_raises_DefaultSubstituted(l, error) ==
    [pc |-> "add_to_cache",
     local |-> [l EXCEPT !.error = error,
                         !.ai_category = "Production",
                         !.ai_priority = "Medium"]]

\* an exception of a model leaves submit_task, which has no handler
model_raises(l, error) ==
    [pc |-> "failed",
     local |-> [l EXCEPT !.error = error]]

\* db.add_task(task_description, ai_category, created_by, due_info['due_datetime'])
task_row(l, task_id) ==
    [task_id |-> task_id,
     task_description |-> l.task_description,
     category |-> l.ai_category,
     created_by |-> "worker1",
     due_datetime |-> l.due_info.due_datetime,
     completion_status |-> "pending",
     completed_at |-> None]

\* an UPDATE without its WHERE clause: every task completed
tasks_after_complete_All(rows, task_id, now) ==
    [i \in DOMAIN rows |->
        [rows[i] EXCEPT !.completion_status = "completed", !.completed_at = now]]

\* complete_task: the UPDATE of the row with the given id
tasks_after_complete(rows, task_id, now) ==
    [i \in DOMAIN rows |->
        IF rows[i].task_id = task_id
        THEN [rows[i] EXCEPT !.completion_status = "completed", !.completed_at = now]
        ELSE rows[i]]

\* the rows of tasks t LEFT JOIN predictions p ON t.task_id = p.task_id for one task
left_join(task, prediction_rows) ==
    LET matching == SelectSeq(prediction_rows, LAMBDA r : r.task_id = task.task_id)
    IN  IF matching = <<>>
        THEN <<[task |-> task, final_priority |-> None]>>
        ELSE [k \in DOMAIN matching |->
                [task |-> task, final_priority |-> matching[k].final_priority]]

\* get_pending_tasks: the joined rows of the pending tasks from position i on.
\* The rows are listed in table order; the ORDER BY of the query is left out.
RECURSIVE get_pending_tasks(_, _, _)
get_pending_tasks(rows, prediction_rows, i) ==
    IF i > Len(rows) THEN <<>>
    ELSE (IF rows[i].completion_status = "pending"
          THEN left_join(rows[i], prediction_rows)
          ELSE <<>>) \o get_pending_tasks(rows, prediction_rows, i + 1)

\* the candidate priority stored as the final one
prediction_row_CandidateAsFinal(l) ==
    [task_id |-> l.task_id,
     ai_priority |-> l.ai_priority,
     ai_category |-> l.ai_category,
     final_priority |-> l.ai_priority,
     final_category |-> l.ai_category,
     was_overridden |-> IF l.safety_result.was_overridden THEN 1 ELSE 0,
     override_reason |-> l.safety_result.override_reason]

\* db.add_prediction(task_id, ai_priority, ai_category, final_priority, ai_category, ...)
prediction_row(l) ==
    [task_id |-> l.task_id,
     ai_priority |-> l.ai_priority,
     ai_category |-> l.ai_category,
     final_priority |-> l.final_priority,
     final_category |-> l.ai_category,
     was_overridden |-> IF l.safety_result.was_overridden THEN 1 ELSE 0,
     override_reason |-> l.safety_result.override_reason]

\* db.add_audit_log(task_id, "task_created", reason, critical_keywords, audit_level)
audit_row(l) ==
    [task_id |-> l.task_id,
     action |-> "task_created",
     reason |-> "Priority: " \o l.ai_priority \o " -> " \o l.final_priority,
     critical_keywords |-> IF l.safety_result.critical_keywords # <<>>
                           THEN join(",", l.safety_result.critical_keywords)
                           ELSE None,
     audit_level |-> l.safety_result.audit_level]

(* --------------------------- FactoryTaskApp --------------------------- *)
\* analyze_task: the suggestion stored for approval
suggestion(text, ai_category, ai_priority, safety_result, due_info) ==
    [task_description |-> text,
     ai_category |-> ai_category,
     ai_priority |-> ai_priority,
     final_priority |-> safety_result.final_priority,
     due_datetime |-> due_info.due_datetime,
     override_reason |-> safety_result.override_reason,
     critical_keywords |-> safety_result.critical_keywords]

\* approve_task: db.add_task(task_description, ai_category, "worker1", due_datetime)
gui_task_row(s, task_id) ==
    task_row([task_description |-> s.task_description,
              ai_category |-> s.ai_category,
              due_info |-> [due_datetime |-> s.due_datetime]], task_id)

\* approve_task: db.add_prediction(..., bool(override_reason), override_reason)
gui_prediction_row(s, task_id) ==
    [task_id |-> task_id,
     ai_priority |-> s.ai_priority,
     ai_category |-> s.ai_category,
     final_priority |-> s.final_priority,
     final_category |-> s.ai_category,
     was_overridden |-> IF s.override_reason # None THEN 1 ELSE 0,
     override_reason |-> s.override_reason]

\* approve_task: db.add_audit_log(..., "CRITICAL" if override_reason else "INFO")
gui_audit_row(s, task_id) ==
    [task_id |-> task_id,
     action |-> "task_created",
     reason |-> "Priority: " \o s.ai_priority \o " -> " \o s.final_priority,
     critical_keywords |-> IF s.critical_keywords # <<>>
                           THEN join(",", s.critical_keywords)
                           ELSE None,
     audit_level |-> IF s.override_reason # None THEN "CRITICAL" ELSE "INFO"]

(* ------------------------------- state -------------------------------- *)
VARIABLES
    task_description,        \* argument of apply_safety_rules
    category,                \* argument of apply_safety_rules / calculate_due_date
    ai_priority,             \* argument of apply_safety_rules
    safety_result,           \* result of apply_safety_rules(text, category, ai_priority)
    second_result,           \* result of evaluating again with the first final priority
    priority,                \* argument of calculate_due_date
    current_time,            \* argument of calculate_due_date
    respect_shift_boundary,  \* argument of calculate_due_date_shift_aware
    base_info,               \* result of calculate_due_date
    shift_info,              \* result of calculate_due_date_shift_aware
    pc,                      \* position of each submit_task call
    local,                   \* local variables of each submit_task call
    prediction_cache,        \* table prediction_cache
    tasks,                   \* table tasks
    predictions,             \* table predictions
    db_audit_log,            \* table audit_log
    predicted,               \* what the loaded models predict for each text classified so far
    cache_trace,             \* calls a client made on the cache, with their return values
    score,                   \* result of calculate_priority_score
    previous_score,          \* the score before a token was appended to the text
    appended,                \* the token appended to the text
    audit_log,               \* SafetyRulesEngine.audit_log
    audit_call,              \* the last call made on the engine, with its return value
    task_trace,              \* calls a client made on the tasks table, with their return values
    current_suggestion       \* FactoryTaskApp.current_suggestion

safetyVars == <<task_description, ai_priority, safety_result, second_result>>

dueVars == <<priority, current_time, respect_shift_boundary, base_info, shift_info>>

dbVars == <<prediction_cache, tasks, predictions, db_audit_log>>

submitVars == <<pc, local, dbVars>>

cacheVars == <<cache_trace>>

scoreVars == <<score, previous_score, appended>>

auditVars == <<audit_log, audit_call>>

taskVars == <<task_trace>>

guiVars == <<current_suggestion>>

vars == <<category, safetyVars, dueVars, submitVars, predicted, cacheVars, scoreVars, auditVars,
          taskVars, guiVars>>

\* no evaluation of the safety rules under way
SafetyIdle ==
    /\ task_description = <<>>
    /\ ai_priority = "Low"
    /\ safety_result = NoResult
    /\ second_result = NoResult

\* no due-date calculation under way
DueIdle ==
    /\ priority = "Low"
    /\ current_time = 0
    /\ respect_shift_boundary = TRUE
    /\ base_info = NoResult
    /\ shift_info = NoResult

\* the store as initialize_database leaves it, no submit_task call started
SubmitIdle ==
    /\ pc = [p \in Procs |-> "start"]
    /\ local = [p \in Procs |-> NoLocals]
    /\ prediction_cache = <<>>
    /\ tasks = <<>>
    /\ predictions = <<>>
    /\ db_audit_log = <<>>
    /\ predicted = <<>>

\* no client call made on the cache
CacheIdle == cache_trace = <<>>

\* no priority score calculated
ScoreIdle ==
    /\ score = NoResult
    /\ previous_score = NoResult
    /\ appended = None

\* the engine as SafetyRulesEngine() leaves it
AuditIdle ==
    /\ audit_log = <<>>
    /\ audit_call = NoResult

\* no client call made on the tasks table
TasksIdle == task_trace = <<>>

\* the application as FactoryTaskApp.__init__ leaves it
GuiIdle == current_suggestion = NoResult

(* ---------------- specification: safety rules engine ------------------ *)
InitSafety ==
    /\ task_description \in Texts
    /\ category \in Categories
    /\ ai_priority \in Priorities
    /\ safety_result = NoResult
    /\ second_result = NoResult
    /\ DueIdle
    /\ SubmitIdle
    /\ CacheIdle
    /\ ScoreIdle
    /\ AuditIdle
    /\ TasksIdle
    /\ GuiIdle

ApplySafetyRules ==
    /\ safety_result = NoResult
    /\ safety_result' = apply_safety_rules(task_description, category, ai_priority)
    /\ UNCHANGED <<task_description, category, ai_priority, second_result, dueVars, submitVars, predicted, cacheVars, scoreVars, auditVars, taskVars, guiVars>>

ApplySafetyRulesAgain ==
    /\ safety_result # NoResult
    /\ second_result = NoResult
    /\ second_result' = apply_safety_rules(task_description, category, safety_result.final_priority)
    /\ UNCHANGED <<task_description, category, ai_priority, safety_result, dueVars, submitVars, predicted, cacheVars, scoreVars, auditVars, taskVars, guiVars>>

NextSafety == ApplySafetyRules \/ ApplySafetyRulesAgain

SpecSafety == InitSafety /\ [][NextSafety]_vars

(* --------------- specification: due-date calculators ------------------ *)
InitDue ==
    /\ priority \in Priorities
    /\ category \in Categories
    /\ current_time \in Instants
    /\ respect_shift_boundary \in BOOLEAN
    /\ base_info = NoResult
    /\ shift_info = NoResult
    /\ SafetyIdle
    /\ SubmitIdle
    /\ CacheIdle
    /\ ScoreIdle
    /\ AuditIdle
    /\ TasksIdle
    /\ GuiIdle

CalculateDueDate ==
    /\ base_info = NoResult
    /\ base_info' = calculate_due_date(priority, category, current_time)
    /\ UNCHANGED <<category, safetyVars, priority, current_time, respect_shift_boundary, shift_info, submitVars, predicted, cacheVars, scoreVars, auditVars, taskVars, guiVars>>

CalculateDueDateShiftAware ==
    /\ shift_info = NoResult
    /\ shift_info' = calculate_due_date_shift_aware(priority, category, current_time,
                                                    respect_shift_boundary)
    /\ UNCHANGED <<category, safetyVars, priority, current_time, respect_shift_boundary, base_info, submitVars, predicted, cacheVars, scoreVars, auditVars, taskVars, guiVars>>

NextDue == CalculateDueDate \/ CalculateDueDateShiftAware

SpecDue == InitDue /\ [][NextDue]_vars

(* -------------------- specification: submit_task ---------------------- *)
Init ==
    /\ category = "Production"
    /\ SafetyIdle
    /\ DueIdle
    /\ SubmitIdle
    /\ CacheIdle
    /\ ScoreIdle
    /\ AuditIdle
    /\ TasksIdle
    /\ GuiIdle

\* Step 1: db.check_cache(task_description)
CheckCache(p) ==
    /\ pc[p] = "start"
    /\ \E text \in SubmitTexts :
        LET found == cache_rows(prediction_cache, hash_task_description(text))
        IN  IF found # {}
            THEN LET row == fetchone(prediction_cache, hash_task_description(text))
                 IN  /\ prediction_cache' = cache_after_check(prediction_cache, text)
                     /\ local' = [local EXCEPT ![p].task_description = text,
                                               ![p].cache_hit = TRUE,
                                               ![p].ai_category = row.predicted_category,
                                               ![p].ai_priority = row.predicted_priority]
                     /\ pc' = [pc EXCEPT ![p] = after_check_cache(TRUE)]
            ELSE /\ local' = [local EXCEPT ![p].task_description = text,
                                           ![p].cache_hit = FALSE]
                 /\ pc' = [pc EXCEPT ![p] = after_check_cache(FALSE)]
                 /\ UNCHANGED prediction_cache
    /\ UNCHANGED <<category, safetyVars, dueVars, tasks, predictions, db_audit_log, predicted, cacheVars, scoreVars, auditVars, taskVars, guiVars>>

\* Steps 2 and 3: the categorization model and the priority model predict.
\* The loaded models are fixed functions of the case-folded text; what they
\* answer for a text is chosen when the text is first classified.
Classify(p) ==
    /\ pc[p] = "classify"
    /\ LET input == model_input(local[p].task_description)
       IN  IF input \in DOMAIN predicted
           THEN /\ local' = [local EXCEPT ![p].ai_category = predicted[input][1],
                                          ![p].ai_priority = predicted[input][2]]
                /\ UNCHANGED predicted
           ELSE \E c \in ConfiguredCategories, pr \in Priorities :
                /\ local' = [local EXCEPT ![p].ai_category = c, ![p].ai_priority = pr]
                /\ predicted' = [i \in DOMAIN predicted \cup {input} |->
                                    IF i = input THEN <<c, pr>> ELSE predicted[i]]
    /\ pc' = [pc EXCEPT ![p] = "add_to_cache"]
    /\ UNCHANGED <<category, safetyVars, dueVars, dbVars, cacheVars, scoreVars, auditVars, taskVars, guiVars>>

\* Steps 2 and 3 when categorization_model.predict or priority_model.predict raises
ModelRaises(p) ==
    /\ pc[p] = "classify"
    /\ \E error \in ModelErrors :
        /\ local' = [local EXCEPT ![p] = model_raises(local[p], error).local]
        /\ pc' = [pc EXCEPT ![p] = model_raises(local[p], error).pc]
    /\ UNCHANGED <<category, safetyVars, dueVars, dbVars, predicted, cacheVars, scoreVars, auditVars, taskVars, guiVars>>

\* Steps 6 to 8 when the store raises: the exception leaves submit_task, and
\* what earlier steps committed stays committed
StoreRaises(p) ==
    /\ pc[p] \in {"add_task", "add_prediction", "add_audit_log"}
    /\ \E error \in StoreErrors :
        local' = [local EXCEPT ![p].error = error]
    /\ pc' = [pc EXCEPT ![p] = "failed"]
    /\ UNCHANGED <<category, safetyVars, dueVars, dbVars, predicted, cacheVars, scoreVars, auditVars, taskVars, guiVars>>

\* db.add_to_cache(task_description, ai_category, ai_priority)
AddToCache(p) ==
    /\ pc[p] = "add_to_cache"
    /\ prediction_cache' = cache_after_add(prediction_cache, local[p].task_description,
                                           local[p].ai_category, local[p].ai_priority)
    /\ pc' = [pc EXCEPT ![p] = "safety"]
    /\ UNCHANGED <<category, safetyVars, dueVars, local, tasks, predictions, db_audit_log, predicted, cacheVars, scoreVars, auditVars, taskVars, guiVars>>

\* Step 4: safety_engine.apply_safety_rules(task_description, ai_category, ai_priority)
SubmitApplySafetyRules(p) ==
    /\ pc[p] = "safety"
    /\ LET result == apply_safety_rules(local[p].task_description, local[p].ai_category,
                                        local[p].ai_priority)
       IN  local' = [local EXCEPT ![p].safety_result = result,
                                  ![p].final_priority = result.final_priority]
    /\ pc' = [pc EXCEPT ![p] = "due_date"]
    /\ UNCHANGED <<category, safetyVars, dueVars, dbVars, predicted, cacheVars, scoreVars, auditVars, taskVars, guiVars>>

\* Step 5: due_date_calculator.calculate_due_date_shift_aware(final_priority, ai_category)
SubmitCalculateDueDate(p) ==
    /\ pc[p] = "due_date"
    /\ \E now \in SubmitInstants :
        local' = [local EXCEPT ![p].due_info =
                    calculate_due_date_shift_aware(local[p].final_priority,
                                                   local[p].ai_category, now, TRUE)]
    /\ pc' = [pc EXCEPT ![p] = "add_task"]
    /\ UNCHANGED <<category, safetyVars, dueVars, dbVars, predicted, cacheVars, scoreVars, auditVars, taskVars, guiVars>>

\* Step 6: db.add_task(...), task_id = cursor.lastrowid
AddTask(p) ==
    /\ pc[p] = "add_task"
    /\ tasks' = Append(tasks, task_row(local[p], Len(tasks) + 1))
    /\ local' = [local EXCEPT ![p].task_id = Len(tasks) + 1]
    /\ pc' = [pc EXCEPT ![p] = "add_prediction"]
    /\ UNCHANGED <<category, safetyVars, dueVars, prediction_cache, predictions, db_audit_log, predicted, cacheVars, scoreVars, auditVars, taskVars, guiVars>>

\* Step 7 left out: the call goes on to the audit row without a prediction row
AddPrediction_Skipped(p) ==
    /\ pc[p] = "add_prediction"
    /\ pc' = [pc EXCEPT ![p] = "add_audit_log"]
    /\ UNCHANGED <<category, safetyVars, dueVars, local, dbVars, predicted, cacheVars,
                   scoreVars, auditVars, taskVars, guiVars>>

\* Step 7: db.add_prediction(...)
AddPrediction(p) ==
    /\ pc[p] = "add_prediction"
    /\ predictions' = Append(predictions, prediction_row(local[p]))
    /\ pc' = [pc EXCEPT ![p] = "add_audit_log"]
    /\ UNCHANGED <<category, safetyVars, dueVars, local, prediction_cache, tasks, db_audit_log, predicted, cacheVars, scoreVars, auditVars, taskVars, guiVars>>

\* Step 8: db.add_audit_log(...), then return task_id
AddAuditLog(p) ==
    /\ pc[p] = "add_audit_log"
    /\ db_audit_log' = Append(db_audit_log, audit_row(local[p]))
    /\ pc' = [pc EXCEPT ![p] = "done"]
    /\ UNCHANGED <<category, safetyVars, dueVars, local, prediction_cache, tasks, predictions, predicted, cacheVars, scoreVars, auditVars, taskVars, guiVars>>

Next ==
    \E p \in Procs :
        \/ CheckCache(p)
        \/ Classify(p)
        \/ ModelRaises(p)
        \/ StoreRaises(p)
        \/ AddToCache(p)
        \/ SubmitApplySafetyRules(p)
        \/ SubmitCalculateDueDate(p)
        \/ AddTask(p)
        \/ AddPrediction(p)
        \/ AddAuditLog(p)

Spec == Init /\ [][Next]_vars

(* ------------------ specification: prediction cache ------------------- *)
\* calls a client makes directly on the DatabaseManager's cache methods
MaxCacheCalls == 4

\* the predictions a client offers to add_to_cache
OfferedPredictions == {<<"Production", "Low">>, <<"Hygiene & Safety", "High">>}

InitCache ==
    /\ category = "Production"
    /\ SafetyIdle
    /\ DueIdle
    /\ SubmitIdle
    /\ CacheIdle
    /\ ScoreIdle
    /\ AuditIdle
    /\ TasksIdle
    /\ GuiIdle

CallAddToCache ==
    /\ Len(cache_trace) < MaxCacheCalls
    /\ \E text \in SubmitTexts, offered \in OfferedPredictions :
        /\ prediction_cache' = cache_after_add(prediction_cache, text, offered[1], offered[2])
        /\ cache_trace' = Append(cache_trace,
                                 [op |-> "add_to_cache",
                                  task_description |-> text,
                                  predicted_category |-> offered[1],
                                  predicted_priority |-> offered[2],
                                  result |-> add_to_cache_result(prediction_cache, text)])
    /\ UNCHANGED <<category, safetyVars, dueVars, pc, local, tasks, predictions, db_audit_log,
                   predicted, scoreVars, auditVars, taskVars, guiVars>>

CallCheckCache ==
    /\ Len(cache_trace) < MaxCacheCalls
    /\ \E text \in SubmitTexts :
        /\ prediction_cache' = cache_after_check(prediction_cache, text)
        /\ cache_trace' = Append(cache_trace,
                                 [op |-> "check_cache",
                                  task_description |-> text,
                                  predicted_category |-> None,
                                  predicted_priority |-> None,
                                  result |-> check_cache_result(prediction_cache, text)])
    /\ UNCHANGED <<category, safetyVars, dueVars, pc, local, tasks, predictions, db_audit_log,
                   predicted, scoreVars, auditVars, taskVars, guiVars>>

CallGetCacheStats ==
    /\ Len(cache_trace) < MaxCacheCalls
    /\ cache_trace' = Append(cache_trace,
                             [op |-> "get_cache_stats",
                              task_description |-> <<>>,
                              predicted_category |-> None,
                              predicted_priority |-> None,
                              result |-> get_cache_stats(prediction_cache)])
    /\ UNCHANGED <<category, safetyVars, dueVars, submitVars, predicted, scoreVars, auditVars, taskVars, guiVars>>

NextCache == CallAddToCache \/ CallCheckCache \/ CallGetCacheStats

SpecCache == InitCache /\ [][NextCache]_vars

(* ------------------- specification: priority score -------------------- *)
ScorePieces == {"urgent", "Urgent", "clean", "tank", "organize", "label", Whitespace}

ScoreTexts == UNION {[1..n -> ScorePieces] : n \in 0..MaxTextLen}

\* the tokens appended to a text
ScoreTokens == {"urgent", "Urgent", "clean", "tank", "organize", "label", "broken"}

InitScore ==
    /\ task_description \in ScoreTexts
    /\ category \in Categories
    /\ ai_priority = "Low"
    /\ safety_result = NoResult
    /\ second_result = NoResult
    /\ DueIdle
    /\ SubmitIdle
    /\ CacheIdle
    /\ ScoreIdle
    /\ AuditIdle
    /\ TasksIdle
    /\ GuiIdle

CalculatePriorityScore ==
    /\ score = NoResult
    /\ score' = calculate_priority_score(task_description, category)
    /\ UNCHANGED <<category, safetyVars, dueVars, submitVars, predicted, cacheVars,
                   previous_score, appended, auditVars, taskVars, guiVars>>

\* the score of the text with one more token, after the score of the text
CalculatePriorityScoreOfLongerText ==
    /\ score # NoResult
    /\ appended = None
    /\ \E token \in ScoreTokens :
        /\ appended' = token
        /\ task_description' = task_description \o <<Whitespace, token>>
        /\ score' = calculate_priority_score(task_description \o <<Whitespace, token>>, category)
    /\ previous_score' = score
    /\ UNCHANGED <<category, ai_priority, safety_result, second_result, dueVars, submitVars,
                   predicted, cacheVars, auditVars, taskVars, guiVars>>

NextScore == CalculatePriorityScore \/ CalculatePriorityScoreOfLongerText

SpecScore == InitScore /\ [][NextScore]_vars

(* ---------------- specification: the engine's audit log --------------- *)
\* entries logged
MaxAuditLog == 2

AuditTexts == {<<"Mold">>, <<"label">>}

AuditCategories == {"Hygiene & Safety", "Packaging"}

\* the task ids a caller passes to log_audit
TaskIds == {1, 2}

\* the instant datetime.now() returns in log_audit
AuditInstants == {10 * 60 + 30}

InitAudit ==
    /\ category = "Production"
    /\ SafetyIdle
    /\ DueIdle
    /\ SubmitIdle
    /\ CacheIdle
    /\ ScoreIdle
    /\ AuditIdle
    /\ TasksIdle
    /\ GuiIdle

\* the number of log_audit calls made so far
LogAuditCalls == IF audit_call = NoResult THEN 0 ELSE audit_call.log_audit_calls

EngineApplySafetyRules ==
    /\ \E text \in AuditTexts, cat \in AuditCategories, candidate \in Priorities :
        /\ task_description' = text
        /\ category' = cat
        /\ ai_priority' = candidate
        /\ safety_result' = apply_safety_rules(text, cat, candidate)
        /\ audit_call' = [op |-> "apply_safety_rules",
                          task_id |-> 0,
                          result |-> <<apply_safety_rules(text, cat, candidate)>>,
                          log_audit_calls |-> LogAuditCalls]
    /\ UNCHANGED <<second_result, dueVars, submitVars, predicted, cacheVars, scoreVars,
                   audit_log, taskVars, guiVars>>

EngineLogAudit ==
    /\ safety_result # NoResult
    /\ Len(audit_log) < MaxAuditLog
    /\ \E task_id \in TaskIds, now \in AuditInstants :
        LET entry == audit_entry(now, task_id, task_description, category, ai_priority,
                                 safety_result)
        IN  /\ audit_log' = log_audit(audit_log, entry)
            /\ audit_call' = [op |-> "log_audit",
                              task_id |-> task_id,
                              result |-> <<entry>>,
                              log_audit_calls |-> LogAuditCalls + 1]
    /\ UNCHANGED <<category, safetyVars, dueVars, submitVars, predicted, cacheVars, scoreVars, taskVars, guiVars>>

EngineGetAuditLog ==
    /\ audit_call' = [op |-> "get_audit_log",
                      task_id |-> 0,
                      result |-> get_audit_log(audit_log),
                      log_audit_calls |-> LogAuditCalls]
    /\ UNCHANGED <<category, safetyVars, dueVars, submitVars, predicted, cacheVars, scoreVars,
                   audit_log, taskVars, guiVars>>

NextAudit == EngineApplySafetyRules \/ EngineLogAudit \/ EngineGetAuditLog

SpecAudit == InitAudit /\ [][NextAudit]_vars

(* -------------------- specification: tasks table ---------------------- *)
\* calls a client makes directly on the DatabaseManager's task methods
MaxTaskCalls == 4

\* the descriptions a client passes to add_task
TaskTexts == {<<"Mold">>, <<"label">>}

InitTasks ==
    /\ category = "Production"
    /\ SafetyIdle
    /\ DueIdle
    /\ SubmitIdle
    /\ CacheIdle
    /\ ScoreIdle
    /\ AuditIdle
    /\ TasksIdle
    /\ GuiIdle

\* db.add_task(text, "Production", "worker1"): due_datetime defaults to None
CallAddTask ==
    /\ Len(task_trace) < MaxTaskCalls
    /\ \E text \in TaskTexts :
        tasks' = Append(tasks, task_row([task_description |-> text,
                                         ai_category |-> "Production",
                                         due_info |-> [due_datetime |-> None]],
                                        Len(tasks) + 1))
    /\ task_trace' = Append(task_trace, [op |-> "add_task",
                                         task_id |-> Len(tasks) + 1,
                                         result |-> <<>>])
    /\ UNCHANGED <<category, safetyVars, dueVars, pc, local, prediction_cache, predictions,
                   db_audit_log, predicted, cacheVars, scoreVars, auditVars, guiVars>>

\* db.complete_task(task_id), for an id that may or may not exist; the instant
\* CURRENT_TIMESTAMP is counted in calls
CallCompleteTask ==
    /\ Len(task_trace) < MaxTaskCalls
    /\ \E task_id \in TaskIds :
        /\ tasks' = tasks_after_complete(tasks, task_id, ToString(Len(task_trace) + 1))
        /\ task_trace' = Append(task_trace, [op |-> "complete_task",
                                             task_id |-> task_id,
                                             result |-> <<>>])
    /\ UNCHANGED <<category, safetyVars, dueVars, pc, local, prediction_cache, predictions,
                   db_audit_log, predicted, cacheVars, scoreVars, auditVars, guiVars>>

CallGetPendingTasks ==
    /\ Len(task_trace) < MaxTaskCalls
    /\ task_trace' = Append(task_trace, [op |-> "get_pending_tasks",
                                         task_id |-> 0,
                                         result |-> get_pending_tasks(tasks, predictions, 1)])
    /\ UNCHANGED <<category, safetyVars, dueVars, submitVars, predicted, cacheVars, scoreVars,
                   auditVars, guiVars>>

NextTasks == CallAddTask \/ CallCompleteTask \/ CallGetPendingTasks

SpecTasks == InitTasks /\ [][NextTasks]_vars

(* ------------------- specification: FactoryTaskApp --------------------- *)
\* tasks created through the application
MaxGuiTasks == 2

\* what the worker types in the task input
GuiInputs == {<<Whitespace>>, <<"Mold", Whitespace>>, <<Whitespace, "label">>}

InitGui ==
    /\ category = "Production"
    /\ SafetyIdle
    /\ DueIdle
    /\ SubmitIdle
    /\ CacheIdle
    /\ ScoreIdle
    /\ AuditIdle
    /\ TasksIdle
    /\ GuiIdle

\* analyze_task; an empty input is refused with a warning and changes nothing.
\* The models are the ones submit_task loads.
AnalyzeTask ==
    \E input \in GuiInputs, now \in SubmitInstants :
        LET text == strip(input)
            model_in == model_input(text)
        IN  /\ text # <<>>
            /\ \E c \in ConfiguredCategories, pr \in Priorities :
                /\ model_in \in DOMAIN predicted => predicted[model_in] = <<c, pr>>
                /\ predicted' = [i \in DOMAIN predicted \cup {model_in} |->
                                    IF i = model_in THEN <<c, pr>> ELSE predicted[i]]
                /\ LET result == apply_safety_rules(text, c, pr)
                       due_info == calculate_due_date_shift_aware(result.final_priority, c,
                                                                  now, TRUE)
                   IN  current_suggestion' = suggestion(text, c, pr, result, due_info)
            /\ UNCHANGED <<category, safetyVars, dueVars, submitVars, cacheVars, scoreVars,
                           auditVars, taskVars>>

\* approve_task, then clear_input
ApproveTask ==
    /\ current_suggestion # NoResult
    /\ Len(tasks) < MaxGuiTasks
    /\ tasks' = Append(tasks, gui_task_row(current_suggestion, Len(tasks) + 1))
    /\ predictions' = Append(predictions,
                             gui_prediction_row(current_suggestion, Len(tasks) + 1))
    /\ db_audit_log' = Append(db_audit_log, gui_audit_row(current_suggestion, Len(tasks) + 1))
    /\ current_suggestion' = NoResult
    /\ UNCHANGED <<category, safetyVars, dueVars, pc, local, prediction_cache, predicted,
                   cacheVars, scoreVars, auditVars, taskVars>>

\* reject_task: clear_input
RejectTask ==
    /\ current_suggestion # NoResult
    /\ current_suggestion' = NoResult
    /\ UNCHANGED <<category, safetyVars, dueVars, submitVars, predicted, cacheVars, scoreVars,
                   auditVars, taskVars>>

NextGui == AnalyzeTask \/ ApproveTask \/ RejectTask

SpecGui == InitGui /\ [][NextGui]_vars

(* ------------------- properties: safety rules engine ------------------ *)
Applied == safety_result # NoResult

\* the characters of a run of pieces
chars(pieces) == join("", pieces)

\* keyword k occurs in the case-folded text as whole, whitespace-delimited words
Occurs(k, text) ==
    \E i \in DOMAIN text : \E j \in i..Len(text) :
        /\ text[i] # Whitespace /\ text[j] # Whitespace
        /\ (i = 1 \/ text[i - 1] = Whitespace)
        /\ (j = Len(text) \/ text[j + 1] = Whitespace)
        /\ chars(SubSeq(lower(text), i, j)) = k

Below(p, q) == priority_order[p] < priority_order[q]

\* C1: whenever a configured critical keyword occurs in the task text, the
\* evaluation returns final_priority High and a non-empty critical_keywords
\* list, for every category and candidate priority.
C1_CriticalKeywordForcesHigh ==
    (Applied /\ \E k \in CRITICAL_SAFETY_KEYWORDS : Occurs(k, task_description))
        => /\ safety_result.final_priority = "High"
           /\ safety_result.critical_keywords # <<>>

\* C2 (as stated): for a category with configured minimum M and a candidate
\* below M, the evaluation returns final_priority = M and was_overridden.
C2_FloorIsFinal ==
    (Applied /\ category \in ConfiguredCategories
             /\ Below(ai_priority, MINIMUM_PRIORITY_BY_CATEGORY[category]))
        => /\ safety_result.final_priority = MINIMUM_PRIORITY_BY_CATEGORY[category]
           /\ safety_result.was_overridden

\* C2 (amended): for a category with configured minimum M and a candidate
\* below M, the evaluation is overridden and its final priority is M, or High
\* when a critical keyword token matched or the category is always
\* safety-critical.
C2_FloorThenRaised ==
    (Applied /\ category \in ConfiguredCategories
             /\ Below(ai_priority, MINIMUM_PRIORITY_BY_CATEGORY[category]))
        => /\ safety_result.was_overridden
           /\ safety_result.final_priority =
                 IF safety_result.critical_keywords # <<>>
                    \/ category \in ALWAYS_SAFETY_CRITICAL_CATEGORIES
                 THEN "High"
                 ELSE MINIMUM_PRIORITY_BY_CATEGORY[category]

C2_Witness ==
    /\ Applied
    /\ category = "Quality Control"
    /\ ai_priority = "Low"
    /\ safety_result.critical_keywords = <<>>
    /\ safety_result.final_priority = "High"
    /\ safety_result.was_overridden

\* C3: was_overridden is true exactly when the final priority differs from
\* the candidate, the reported ai_priority is the candidate, and a candidate
\* that is already High is never reported as overridden.
C3_OverriddenIffChanged ==
    Applied
        => /\ safety_result.ai_priority = ai_priority
           /\ safety_result.was_overridden
                 = (safety_result.final_priority # safety_result.ai_priority)
           /\ (ai_priority = "High" => ~safety_result.was_overridden)

C3_Witness ==
    /\ Applied
    /\ ai_priority = "High"
    /\ category = "Hygiene & Safety"
    /\ safety_result.critical_keywords # <<>>
    /\ ~safety_result.was_overridden

\* C4: evaluating again with the first final priority as the candidate
\* returns the same final priority and reports no override.
C4_Idempotent ==
    second_result # NoResult
        => /\ second_result.final_priority = safety_result.final_priority
           /\ ~second_result.was_overridden

C4_Witness ==
    /\ second_result # NoResult
    /\ safety_result.was_overridden
    /\ safety_result.final_priority # ai_priority

\* C5: when a critical keyword matched and the priority after the category
\* floor is not High, the result is High, overridden, CRITICAL, and its reason
\* lists the matched keywords comma-joined in text order; the always-critical
\* category rule does not replace that level or reason.
C5_CriticalNotDowngraded ==
    LET kw == check_safety_keywords(task_description)
        floored == Rule1(InitialResult(kw, ai_priority), category)
    IN  (Applied /\ kw.has_critical /\ floored.final_priority # "High")
            => /\ safety_result.final_priority = "High"
               /\ safety_result.was_overridden
               /\ safety_result.audit_level = "CRITICAL"
               /\ safety_result.override_reason
                     = "Critical keywords detected: " \o join(", ", kw.critical_keywords)
               /\ (task_description = <<"urgent", Whitespace, "Mold">>
                     => safety_result.override_reason
                           = "Critical keywords detected: urgent, mold")

C5_Witness ==
    /\ Applied
    /\ category = "Quality Control"
    /\ ai_priority = "Low"
    /\ task_description = <<"urgent", Whitespace, "Mold">>
    /\ safety_result.audit_level = "CRITICAL"

(* ------------------- properties: due-date calculators ----------------- *)
\* C7: the base calculator returns a due instant not before now and a whole
\* number of hours_available >= 1, the due instant being now plus that many
\* hours.
C7_BaseDueAfterNow ==
    base_info # NoResult
        => /\ base_info.due_datetime >= current_time
           /\ base_info.hours_available \in Nat
           /\ base_info.hours_available >= 1
           /\ base_info.due_datetime = current_time + base_info.hours_available * 60

C7_Witness ==
    /\ base_info # NoResult
    /\ category = "Hygiene & Safety"
    /\ priority = "High"
    /\ base_info.hours_available = 1
    /\ base_info.due_datetime = current_time + 60

\* C8: every shift-aware result, capped ones included, has a whole number of
\* hours_available >= 1 and a due instant not before now.
C8_ShiftAwareHoursAtLeastOne ==
    shift_info # NoResult
        => /\ shift_info.hours_available \in Nat
           /\ shift_info.hours_available >= 1
           /\ shift_info.due_datetime >= current_time

\* C9: for a High task of a safety-critical category the shift-aware due
\* instant is the earlier of the base due instant and the end of the current
\* shift; when the base due instant exceeds the shift end, the due instant is
\* the shift end, hours_available the floored hours until then, and the
\* explanation carries the capped indicator.
C9_SafetyCriticalCappedToShiftEnd ==
    LET base == calculate_due_date(priority, category, current_time)
        end == shift_end(current_time)
    IN  (shift_info # NoResult /\ respect_shift_boundary /\ priority = "High"
            /\ category \in ALWAYS_SAFETY_CRITICAL_CATEGORIES)
            => /\ shift_info.due_datetime <= end
               /\ shift_info.due_datetime
                     = (IF base.due_datetime <= end THEN base.due_datetime ELSE end)
               /\ (base.due_datetime > end
                     => /\ shift_info.hours_available = (end - current_time) \div 60
                        /\ shift_info.explanation
                              = base.explanation \o " [CAPPED TO SHIFT END]")

\* C10: outside the combination High + 'Hygiene & Safety', and always when
\* respect_shift_boundary is false, the shift-aware calculator returns exactly
\* the base calculator's result.
C10_ShiftAwareEqualsBase ==
    (base_info # NoResult /\ shift_info # NoResult
        /\ (~respect_shift_boundary \/ ~(priority = "High" /\ category = "Hygiene & Safety")))
        => shift_info = base_info

C10_Witness ==
    /\ base_info # NoResult
    /\ shift_info # NoResult
    /\ respect_shift_boundary
    /\ priority = "High"
    /\ category = "Quality Control"
    /\ base_info.due_datetime > shift_end(current_time)
    /\ shift_info = base_info

(* ------------------------ properties: submit_task --------------------- *)
\* the prediction row of a task
PredictionOf(task_id) ==
    predictions[CHOOSE i \in DOMAIN predictions : predictions[i].task_id = task_id]

Recorded(p) == pc[p] \in {"add_audit_log", "done"}

\* C6: the final priority stored in every prediction row is the one
\* apply_safety_rules returns for that task's text, category and candidate
\* priority, on cache hits and misses alike; the stored due date is computed
\* from that final priority; and no recorded task whose text matched a critical
\* keyword has a stored final priority other than High.
C6_OverrideRecorded ==
    /\ \A i \in DOMAIN predictions :
        LET row == predictions[i]
            text == tasks[row.task_id].task_description
        IN  /\ row.final_priority
                  = apply_safety_rules(text, row.ai_category, row.ai_priority).final_priority
            /\ (check_safety_keywords(text).has_critical => row.final_priority = "High")
    /\ \A p \in Procs :
        Recorded(p) =>
            LET row == PredictionOf(local[p].task_id)
            IN  tasks[local[p].task_id].due_datetime
                    = calculate_due_date_shift_aware(row.final_priority, row.ai_category,
                                                     local[p].due_info.created_at,
                                                     TRUE).due_datetime

C6_Witness ==
    \E p \in Procs :
        /\ pc[p] = "done"
        /\ local[p].cache_hit
        /\ check_safety_keywords(local[p].task_description).has_critical
        /\ PredictionOf(local[p].task_id).ai_priority = "Low"
        /\ PredictionOf(local[p].task_id).final_priority = "High"
        /\ tasks[local[p].task_id].due_datetime
              < local[p].due_info.created_at + hours(PRIORITY_HOURS["Low"])

\* the result carries the capped indicator
Capped(due_info, base) == due_info.explanation = base.explanation \o " [CAPPED TO SHIFT END]"

HighSafetyAt(minute_of_day) ==
    /\ base_info # NoResult
    /\ shift_info # NoResult
    /\ respect_shift_boundary
    /\ priority = "High"
    /\ category = "Hygiene & Safety"
    /\ current_time % 1440 = minute_of_day

\* C11 (as stated): for a High 'Hygiene & Safety' task at 13:00 the base due
\* instant lies after the shift end 14:00 and the result is capped: due 14:00,
\* hours available 1, marked as capped.
C11_CappedAtThirteen ==
    HighSafetyAt(13 * 60)
        => /\ base_info.due_datetime > replace_hour(current_time, 14)
           /\ shift_info.due_datetime = replace_hour(current_time, 14)
           /\ shift_info.hours_available = 1
           /\ Capped(shift_info, base_info)

\* C11 (amended): for a High 'Hygiene & Safety' task at 13:00 the base hours
\* are truncated to 1, the base due instant is exactly the shift end 14:00, and
\* the shift-aware result is the base result: due 14:00, hours available 1, not
\* marked as capped.
C11_NotCappedAtThirteen ==
    HighSafetyAt(13 * 60)
        => /\ base_info.due_datetime = replace_hour(current_time, 14)
           /\ shift_info.due_datetime = replace_hour(current_time, 14)
           /\ shift_info.hours_available = 1
           /\ ~Capped(shift_info, base_info)
           /\ shift_info = base_info

C11_Witness ==
    /\ HighSafetyAt(13 * 60)
    /\ shift_info.shift = "Morning"
    /\ shift_info.due_datetime = current_time + 60

\* shift boundaries of the modelled days and the day after them
ShiftBoundaries == {d * 1440 + h * 60 : d \in 0..(MaxDay + 2), h \in {6, 14, 22}}

\* the first shift boundary strictly after instant t
NextBoundary(t) ==
    CHOOSE b \in ShiftBoundaries :
        /\ b > t
        /\ \A c \in ShiftBoundaries : c > t => b <= c

ShiftOfHour(h) ==
    CASE h \in 6..13 -> "Morning"
      [] h \in 14..21 -> "Afternoon"
      [] h \in {22, 23} \cup 0..5 -> "Night"

\* C12: every instant belongs to the shift of its hour (Morning 6-13,
\* Afternoon 14-21, Night 22-23 and 0-5); the shift end used for capping is the
\* first shift boundary strictly after now (for Night, 06:00 of the next day
\* from 22:00 on and 06:00 of the same day before 06:00); a High 'Hygiene &
\* Safety' task created at 22:30 is not capped.
C12_ShiftWrapsMidnight ==
    /\ shift_info # NoResult => shift_info.shift = ShiftOfHour((current_time % 1440) \div 60)
    /\ \A m \in {current_time % 1440} :
        HighSafetyAt(m)
            => /\ shift_info.due_datetime
                    = (IF base_info.due_datetime > NextBoundary(current_time)
                       THEN NextBoundary(current_time)
                       ELSE base_info.due_datetime)
               /\ Capped(shift_info, base_info)
                    = (base_info.due_datetime > NextBoundary(current_time))
               /\ (m = 22 * 60 + 30 => shift_info = base_info)

C12_Witness ==
    /\ HighSafetyAt(22 * 60 + 30)
    /\ shift_info.shift = "Night"
    /\ NextBoundary(current_time) = replace_hour(current_time, 6) + 1440
    /\ shift_info = base_info

(* ---------------------- properties: prediction cache ------------------- *)
\* the calls of the trace before position i that add an entry for the hash h
AddsBefore(h, i) ==
    {j \in 1..(i - 1) : /\ cache_trace[j].op = "add_to_cache"
                        /\ hash_task_description(cache_trace[j].task_description) = h}

\* the lookups of the trace before position i that hit the entry of the hash h
HitsBefore(h, i) ==
    {j \in 1..(i - 1) : /\ cache_trace[j].op = "check_cache"
                        /\ hash_task_description(cache_trace[j].task_description) = h
                        /\ AddsBefore(h, j) # {}}

\* the call that created the entry of the hash h
FirstAdd(h) ==
    cache_trace[CHOOSE j \in AddsBefore(h, Len(cache_trace) + 1) :
                    \A k \in AddsBefore(h, Len(cache_trace) + 1) : j <= k]

Hashes == {hash_task_description(text) : text \in SubmitTexts}

\* C13: cache insert is first-writer-wins.  In every sequence of add_to_cache
\* and check_cache calls an add_to_cache returns True exactly when no earlier
\* add_to_cache was made for the same (case-folded) text, and False, not an
\* exception, otherwise; the cache holds one entry per text added, and that
\* entry carries the category and the priority of the first add_to_cache and
\* a hit count that only lookups have raised, whatever later calls offered.
C13_FirstWriterWins ==
    /\ \A i \in DOMAIN cache_trace :
        cache_trace[i].op = "add_to_cache" =>
            cache_trace[i].result =
                (AddsBefore(hash_task_description(cache_trace[i].task_description), i) = {})
    /\ \A h \in Hashes :
        IF AddsBefore(h, Len(cache_trace) + 1) = {}
        THEN cache_rows(prediction_cache, h) = {}
        ELSE /\ Cardinality(cache_rows(prediction_cache, h)) = 1
             /\ fetchone(prediction_cache, h).predicted_category = FirstAdd(h).predicted_category
             /\ fetchone(prediction_cache, h).predicted_priority = FirstAdd(h).predicted_priority
             /\ fetchone(prediction_cache, h).cache_hit_count =
                    Cardinality(HitsBefore(h, Len(cache_trace) + 1))

\* a later add_to_cache offered another prediction for a text already looked
\* up once, and was refused
C13_Witness ==
    \E i, j, k \in DOMAIN cache_trace :
        /\ i < j /\ j < k
        /\ cache_trace[i].op = "add_to_cache" /\ cache_trace[i].result = TRUE
        /\ cache_trace[j].op = "check_cache" /\ cache_trace[j].result[1] = TRUE
        /\ cache_trace[k].op = "add_to_cache" /\ cache_trace[k].result = FALSE
        /\ cache_trace[k].task_description = cache_trace[i].task_description
        /\ cache_trace[j].task_description = cache_trace[i].task_description
        /\ cache_trace[k].predicted_category # cache_trace[i].predicted_category
        /\ cache_trace[k].predicted_priority # cache_trace[i].predicted_priority
        /\ fetchone(prediction_cache,
                    hash_task_description(cache_trace[i].task_description)).cache_hit_count = 1

\* the lookups made before position i that hit an entry
AllHitsBefore(i) == UNION {HitsBefore(h, i) : h \in Hashes}

\* C14: check_cache on a miss returns (False, None, None) and leaves the cache
\* as it is; on a hit it returns the stored category and priority and adds
\* exactly one to the hit count of that entry, so every entry's hit count is
\* the number of hit lookups for its key since it was created; and the total
\* that get_cache_stats reports is the total number of hits.
C14_HitCountsAndReportedTotal ==
    /\ \A i \in DOMAIN cache_trace :
        LET call == cache_trace[i]
            h == hash_task_description(call.task_description)
        IN  /\ call.op = "check_cache" /\ AddsBefore(h, i) = {} =>
                call.result = <<FALSE, None, None>>
            /\ call.op = "check_cache" /\ AddsBefore(h, i) # {} =>
                call.result = <<TRUE, FirstAdd(h).predicted_category,
                                FirstAdd(h).predicted_priority>>
            /\ call.op = "get_cache_stats" =>
                ToString(call.result.total_hits) = ToString(Cardinality(AllHitsBefore(i)))
    /\ \A r \in DOMAIN prediction_cache :
        prediction_cache[r].cache_hit_count =
            Cardinality(HitsBefore(prediction_cache[r].task_hash, Len(cache_trace) + 1))

\* the same with get_cache_stats left to report the total of a cache that has
\* at least one entry
C14_HitCountsAndTotalOfNonEmptyCache ==
    /\ \A i \in DOMAIN cache_trace :
        LET call == cache_trace[i]
            h == hash_task_description(call.task_description)
        IN  /\ call.op = "check_cache" /\ AddsBefore(h, i) = {} =>
                call.result = <<FALSE, None, None>>
            /\ call.op = "check_cache" /\ AddsBefore(h, i) # {} =>
                call.result = <<TRUE, FirstAdd(h).predicted_category,
                                FirstAdd(h).predicted_priority>>
            /\ call.op = "get_cache_stats" =>
                IF call.result.total_cached = 0
                THEN call.result.total_hits = None
                ELSE call.result.total_hits = Cardinality(AllHitsBefore(i))
    /\ \A r \in DOMAIN prediction_cache :
        prediction_cache[r].cache_hit_count =
            Cardinality(HitsBefore(prediction_cache[r].task_hash, Len(cache_trace) + 1))

(* ----------------------- properties: priority score -------------------- *)
\* tokens that count for a feature with a positive weight
PositiveWeighted(token) ==
    LowerPiece(token) \in HIGH_PRIORITY_KEYWORDS \cup SAFETY_KEYWORDS \cup urgent_words
                          \cup equipment_words \cup cleaning_words

\* C19: calculate_priority_score returns a value in [0, 10] (0..20 half
\* points), and it is monotone in the text: for every text and category, the
\* score of the text with a positive-weighted keyword token appended is not
\* below the score of the text, and the score of the text with a low-priority
\* keyword token appended is not above it.
C19_ScoreClampedAndMonotone ==
    /\ score # NoResult => score.score \in 0..20
    /\ previous_score # NoResult =>
        /\ PositiveWeighted(appended) => score.score >= previous_score.score
        /\ LowerPiece(appended) \in LOW_PRIORITY_KEYWORDS => score.score <= previous_score.score

\* a low-priority keyword lowered a score to the floor, 0
C19_WitnessLow ==
    /\ previous_score # NoResult
    /\ appended = "organize"
    /\ previous_score.score > 0
    /\ score.score = 0

(* --------------------- properties: engine audit log -------------------- *)
\* C20: the engine's audit log is append-only and changes only through
\* log_audit.  Every log_audit call appends exactly one entry at the end, which
\* carries the task id and the candidate priority given and the final
\* priority, overridden flag, reason and audit level of the evaluation, and
\* leaves the earlier entries as they are; apply_safety_rules and
\* get_audit_log leave the log unchanged; so after n log_audit calls the log
\* holds n entries, in the order of the calls.
C20_AuditLogAppendOnly ==
    [][/\ audit_call'.op = "log_audit" =>
            /\ audit_call'.log_audit_calls = LogAuditCalls + 1
            /\ Len(audit_log') = Len(audit_log) + 1
            /\ SubSeq(audit_log', 1, Len(audit_log)) = audit_log
            /\ audit_log'[Len(audit_log')] = audit_call'.result[1]
            /\ audit_call'.result[1].task_id = audit_call'.task_id
            /\ audit_call'.result[1].ai_priority = ai_priority
            /\ audit_call'.result[1].final_priority = safety_result.final_priority
            /\ audit_call'.result[1].was_overridden = safety_result.was_overridden
            /\ audit_call'.result[1].override_reason = safety_result.override_reason
            /\ audit_call'.result[1].audit_level = safety_result.audit_level
       /\ audit_call'.op # "log_audit" =>
            /\ audit_call'.log_audit_calls = LogAuditCalls
            /\ audit_log' = audit_log
       /\ Len(audit_log') = audit_call'.log_audit_calls]_vars

\* two entries logged, an overridden evaluation of task 2 and then an
\* evaluation of task 1 that was not overridden, and the log read back
C20_Witness ==
    /\ audit_call # NoResult
    /\ audit_call.op = "get_audit_log"
    /\ audit_call.log_audit_calls = 2
    /\ audit_call.result = audit_log
    /\ Len(audit_log) = 2
    /\ audit_log[1].task_id = 2 /\ audit_log[1].was_overridden
    /\ audit_log[1].ai_priority = "Low" /\ audit_log[1].final_priority = "High"
    /\ audit_log[2].task_id = 1 /\ ~audit_log[2].was_overridden

(* ------------------ properties: concurrent submit_task ----------------- *)
\* the calls that are past the cache steps and have not failed
PastCache(p) ==
    pc[p] \in {"safety", "due_date", "add_task", "add_prediction", "add_audit_log", "done"}

\* C15: under every interleaving of two submit_task calls for the identical
\* text, both of which may miss the cache and classify, the cache holds exactly
\* one row for that text once both are past the cache steps, both calls carry,
\* and record in their prediction rows, the (category, priority) pair of that
\* row, and no call fails on the duplicate insert (no sqlite3.IntegrityError
\* leaves add_to_cache).
C15_OneCacheRowSamePair ==
    /\ \A p \in Procs : local[p].error # "sqlite3.IntegrityError"
    /\ \A p \in Procs :
        pc[p] = "failed" => local[p].error \in ModelErrors \cup StoreErrors
    /\ \A p, q \in Procs :
        /\ p # q
        /\ PastCache(p) /\ PastCache(q)
        /\ local[p].task_description = local[q].task_description
        => LET h == hash_task_description(local[p].task_description)
           IN  /\ Cardinality(cache_rows(prediction_cache, h)) = 1
               /\ \A r \in {p, q} :
                   /\ local[r].ai_category = fetchone(prediction_cache, h).predicted_category
                   /\ local[r].ai_priority = fetchone(prediction_cache, h).predicted_priority
                   /\ Recorded(r) =>
                       /\ PredictionOf(local[r].task_id).ai_category =
                              fetchone(prediction_cache, h).predicted_category
                       /\ PredictionOf(local[r].task_id).ai_priority =
                              fetchone(prediction_cache, h).predicted_priority

\* both calls missed the cache for the same text, both classified, one of them
\* was refused by add_to_cache, and both are done
C15_Witness ==
    /\ \A p \in Procs : pc[p] = "done" /\ ~local[p].cache_hit
    /\ local["submit1"].task_description = local["submit2"].task_description
    /\ Len(prediction_cache) = 1
    /\ Len(predictions) = 2

\* C16: a failed submit_task leaves no partially recorded task: when one of
\* the three store writes fails, the store holds no task row of that call
\* without its prediction row or without its audit row.
C16_NoPartiallyRecordedTask ==
    \A p \in Procs :
        pc[p] = "failed" /\ local[p].task_id # 0 =>
            /\ \E i \in DOMAIN predictions : predictions[i].task_id = local[p].task_id
            /\ \E i \in DOMAIN db_audit_log : db_audit_log[i].task_id = local[p].task_id

\* C17: when the category classifier or the priority predictor fails, the call
\* ends in failure with that error, unchanged; no default category or priority
\* is put in its place, the failing step and the cache check before it write
\* nothing to the store, the call has no task id and so no task, prediction or
\* audit row, and it takes no step after the failure.
C17_ModelErrorPropagates ==
    [][\A p \in Procs :
        /\ local'[p].error \in ModelErrors =>
            /\ pc'[p] = "failed"
            /\ local'[p].ai_priority = None
            /\ local'[p].task_id = 0
            /\ \A i \in DOMAIN tasks' : tasks'[i].task_id # local'[p].task_id
        /\ pc[p] = "classify" /\ pc'[p] = "failed" =>
            /\ local'[p] = [local[p] EXCEPT !.error = local'[p].error]
            /\ local'[p].error \in ModelErrors
            /\ UNCHANGED dbVars
        /\ pc[p] = "start" /\ pc'[p] = "classify" => UNCHANGED dbVars
        /\ pc[p] = "failed" => pc'[p] = "failed" /\ local'[p] = local[p]]_vars

\* one call failed in a model while the other call, for the same text, went
\* through and is recorded
C17_Witness ==
    \E p, q \in Procs :
        /\ pc[p] = "failed" /\ local[p].error = "priority_model error"
        /\ pc[q] = "done"
        /\ local[p].task_description = local[q].task_description
        /\ Len(tasks) = 1 /\ Len(predictions) = 1 /\ Len(db_audit_log) = 1
        /\ Len(prediction_cache) = 1

\* the steps of submit_task in their order
StepOrder ==
    <<"start", "classify", "add_to_cache", "safety", "due_date", "add_task",
      "add_prediction", "add_audit_log", "done">>

\* the step that follows a step when nothing is skipped
FollowingStep(step) == StepOrder[(CHOOSE i \in DOMAIN StepOrder : StepOrder[i] = step) + 1]

\* C18: every submit_task takes its steps in the fixed order cache check,
\* then, only on a miss, classification with priority prediction and the cache
\* insert, then safety evaluation, due date, task, prediction and audit
\* writes.  On a hit the models are not called and no insert is attempted: the
\* call goes from the cache check to the safety evaluation with the cached
\* pair.  The safety evaluation of the pair the call carries is never skipped.
C18_FixedStepOrder ==
    [][/\ \A p \in Procs :
            pc'[p] # pc[p] =>
                /\ pc[p] \notin {"done", "failed"}
                /\ IF pc[p] = "start"
                   THEN LET h == hash_task_description(local'[p].task_description)
                        IN  IF cache_rows(prediction_cache, h) # {}
                            THEN /\ pc'[p] = "safety"
                                 /\ local'[p].cache_hit
                                 /\ local'[p].ai_category =
                                        fetchone(prediction_cache, h).predicted_category
                                 /\ local'[p].ai_priority =
                                        fetchone(prediction_cache, h).predicted_priority
                            ELSE /\ pc'[p] = "classify"
                                 /\ ~local'[p].cache_hit
                   ELSE pc'[p] \in {FollowingStep(pc[p]), "failed"}
                /\ pc[p] = "safety" =>
                    /\ pc'[p] = "due_date"
                    /\ local'[p].safety_result =
                           apply_safety_rules(local[p].task_description, local[p].ai_category,
                                              local[p].ai_priority)
                    /\ local'[p].ai_category = local[p].ai_category
                    /\ local'[p].ai_priority = local[p].ai_priority
                /\ pc[p] \in {"classify", "add_to_cache"} => ~local[p].cache_hit
       /\ predicted' # predicted =>
            \E p \in Procs : pc[p] = "classify" /\ pc'[p] = "add_to_cache"
       /\ Len(prediction_cache') # Len(prediction_cache) =>
            \E p \in Procs : pc[p] = "add_to_cache" /\ pc'[p] = "safety"]_vars

\* a call that hit the cache entry another call had inserted is done, with
\* the safety evaluation of the cached pair made
C18_Witness ==
    \E p, q \in Procs :
        /\ pc[p] = "done" /\ local[p].cache_hit
        /\ pc[q] = "done" /\ ~local[q].cache_hit
        /\ local[p].safety_result =
               apply_safety_rules(local[p].task_description,
                                  fetchone(prediction_cache,
                                           hash_task_description(local[p].task_description)).predicted_category,
                                  fetchone(prediction_cache,
                                           hash_task_description(local[p].task_description)).predicted_priority)
        /\ local[p].safety_result.was_overridden
        /\ Len(prediction_cache) = 1

(* -------------- properties: safety rules engine, continued ------------- *)
\* C23: for every category of the always-safety-critical set ('Hygiene &
\* Safety', 'Quality Control'), every text and every candidate priority, the
\* final priority is High, and the result is overridden exactly when the
\* candidate was not High.
C23_AlwaysCriticalCategoryIsHigh ==
    Applied /\ category \in {"Hygiene & Safety", "Quality Control"} =>
        /\ safety_result.final_priority = "High"
        /\ safety_result.was_overridden = (ai_priority # "High")

\* a Medium 'Quality Control' task without keywords: only Rule 3 raises it
C23_Witness ==
    /\ Applied
    /\ category = "Quality Control"
    /\ ai_priority = "Medium"
    /\ ~check_safety_keywords(task_description).has_critical
    /\ safety_result.final_priority = "High"
    /\ safety_result.override_reason = "Category 'Quality Control' is safety-critical"

\* the results after Rule 1 and after Rule 2 of the evaluation in the state
AfterRule1 ==
    Rule1(InitialResult(check_safety_keywords(task_description), ai_priority), category)

AfterRule2 == Rule2(AfterRule1, check_safety_keywords(task_description).has_critical)

AtLeast(p, q) == priority_order[p] >= priority_order[q]

\* C24: the rule cascade only raises priority.  After each of the three rules
\* the current priority is at least the priority before the rule, so the
\* final priority is at least the candidate; and for a category without a
\* configured floor and outside the always-critical set and a text without a
\* critical keyword the final priority is the candidate.
C24_CascadeOnlyRaises ==
    Applied =>
        /\ AtLeast(AfterRule1.final_priority, ai_priority)
        /\ AtLeast(AfterRule2.final_priority, AfterRule1.final_priority)
        /\ safety_result = Rule3(AfterRule2, category)
        /\ AtLeast(safety_result.final_priority, AfterRule2.final_priority)
        /\ AtLeast(safety_result.final_priority, ai_priority)
        /\ (/\ category \notin DOMAIN MINIMUM_PRIORITY_BY_CATEGORY
            /\ category \notin ALWAYS_SAFETY_CRITICAL_CATEGORIES
            /\ ~check_safety_keywords(task_description).has_critical)
           => safety_result.final_priority = ai_priority

\* a Low 'Quality Control' task raised to Medium by Rule 1 and to High by Rule 3
C24_WitnessRaisedTwice ==
    /\ Applied
    /\ ai_priority = "Low"
    /\ AfterRule1.final_priority = "Medium"
    /\ AfterRule2.final_priority = "Medium"
    /\ safety_result.final_priority = "High"

\* the tokens of the text in the state
Tokens == split(lower(task_description))

\* the critical tokens among the first n tokens, in text order
RECURSIVE CriticalAmong(_)
CriticalAmong(n) ==
    IF n = 0 THEN <<>>
    ELSE IF Tokens[n] \in CRITICAL_SAFETY_KEYWORDS
         THEN Append(CriticalAmong(n - 1), Tokens[n])
         ELSE CriticalAmong(n - 1)

\* C25: check_safety_keywords splits the lower-cased text on whitespace and
\* classifies each token once: the critical matches are the tokens of the
\* critical set, in text order, one entry per occurrence; a critical token is
\* never counted as a warning; warning_count is the number of tokens in the
\* warning set and not in the critical set; has_critical is true exactly when
\* there are critical matches.
C25_TokensClassifiedOnce ==
    Applied =>
        /\ safety_result.critical_keywords = CriticalAmong(Len(Tokens))
        /\ safety_result.warning_count =
               Cardinality({i \in DOMAIN Tokens : /\ Tokens[i] \in WARNING_KEYWORDS
                                                   /\ Tokens[i] \notin CRITICAL_SAFETY_KEYWORDS})
        /\ Len(safety_result.critical_keywords) + safety_result.warning_count <= Len(Tokens)
        /\ check_safety_keywords(task_description).has_critical
               = (safety_result.critical_keywords # <<>>)
        /\ check_safety_keywords(task_description).critical_keywords
               = safety_result.critical_keywords
        /\ check_safety_keywords(task_description).warning_count = safety_result.warning_count

\* a text with a capitalised critical token and a warning token
C25_Witness ==
    /\ Applied
    /\ task_description = <<"Mold", Whitespace, "clean">>
    /\ safety_result.critical_keywords = <<"mold">>
    /\ safety_result.warning_count = 1

\* C30: in every result of apply_safety_rules the three override fields
\* agree: the reason is non-null exactly when the result is overridden, and
\* the audit level is INFO exactly when it is not, so an overridden result has
\* level WARNING or CRITICAL.
C30_OverrideFieldsAgree ==
    Applied =>
        /\ (safety_result.override_reason # None) = safety_result.was_overridden
        /\ (safety_result.audit_level = "INFO") = ~safety_result.was_overridden
        /\ safety_result.was_overridden => safety_result.audit_level \in {"WARNING", "CRITICAL"}

\* Rule 3 alone overrode, with its reason, at level WARNING
C30_Witness ==
    /\ Applied
    /\ safety_result.was_overridden
    /\ AfterRule2.was_overridden = FALSE
    /\ safety_result.audit_level = "WARNING"
    /\ safety_result.override_reason # None

(* ------------- properties: due-date calculators, continued ------------- *)
\* the urgency factor of a category as a fraction <<numerator, denominator>>
FactorOf(cat) ==
    CASE cat = "Hygiene & Safety" -> <<3, 4>>
      [] cat = "Quality Control" -> <<9, 10>>
      [] cat = "Maintenance" -> <<17, 20>>
      [] OTHER -> <<1, 1>>

\* the base hours of a priority
BaseHoursOf(p) == CASE p = "High" -> 2 [] p = "Medium" -> 8 [] p = "Low" -> 24

\* max(1, floor(base hours x factor)): the floor first, then the minimum
ReferenceHours(p, cat) ==
    LET floored == (BaseHoursOf(p) * FactorOf(cat)[1]) \div FactorOf(cat)[2]
    IN  IF floored < 1 THEN 1 ELSE floored

\* C27: calculate_due_date computes hours_available as
\* max(1, floor(base_hours x urgency_factor)), with base hours High = 2,
\* Medium = 8, Low = 24 and the factor of the category (1.0 for a category
\* without a configured factor), truncating before the 1-hour minimum; for
\* every priority and category the result equals this reference value, and
\* the due instant is that many hours after now.
C27_HoursAreTruncatedProduct ==
    base_info # NoResult =>
        /\ base_info.hours_available = ReferenceHours(priority, category)
        /\ base_info.due_datetime = current_time + 60 * ReferenceHours(priority, category)

\* a Medium 'Quality Control' task: 8 x 0.9 = 7.2, truncated to 7 hours
C27_Witness ==
    /\ base_info # NoResult
    /\ priority = "Medium"
    /\ category = "Quality Control"
    /\ base_info.hours_available = 7

\* the shift-aware due instant of the state's category and instant for a priority
DueFor(p) ==
    calculate_due_date_shift_aware(p, category, current_time, respect_shift_boundary).due_datetime

\* C28: raising the priority never postpones the due date.  For every
\* category and instant, the shift-aware due instant for High is not after the
\* one for Medium, which is not after the one for Low; so the due instant of
\* a result is not after the due instant of any lower priority.
C28_HigherPriorityNotLater ==
    shift_info # NoResult =>
        /\ shift_info.due_datetime = DueFor(priority)
        /\ DueFor("High") <= DueFor("Medium")
        /\ DueFor("Medium") <= DueFor("Low")
        /\ \A q \in Priorities : Below(q, priority) => shift_info.due_datetime <= DueFor(q)

\* a capped High 'Hygiene & Safety' result, due before the Medium one would be
C28_Witness ==
    /\ shift_info # NoResult
    /\ priority = "High"
    /\ category = "Hygiene & Safety"
    /\ respect_shift_boundary
    /\ shift_info.due_datetime = shift_end(current_time)
    /\ shift_info.due_datetime < current_time + 60
    /\ DueFor("Medium") = current_time + 6 * 60

(* ------------------------ properties: tasks table ---------------------- *)
\* the position in the trace of the add_task call that created the task
AddedAt(task_id) ==
    CHOOSE j \in DOMAIN task_trace :
        task_trace[j].op = "add_task" /\ task_trace[j].task_id = task_id

\* the tasks added before position i of the trace
AddedBefore(i) ==
    {task_trace[j].task_id : j \in {k \in 1..(i - 1) : task_trace[k].op = "add_task"}}

\* the task was added and then completed, both before position i of the trace
CompletedBefore(task_id, i) ==
    /\ task_id \in AddedBefore(i)
    /\ \E j \in (AddedAt(task_id) + 1)..(i - 1) :
        task_trace[j].op = "complete_task" /\ task_trace[j].task_id = task_id

\* C21: a task row is pending from add_task until complete_task is called
\* with its id; from then on it is completed with completed_at set, whatever
\* is called afterwards; and after any sequence of add_task and complete_task
\* calls get_pending_tasks returns exactly the tasks added and not yet
\* completed, each once.
C21_PendingUntilCompleted ==
    /\ {tasks[i].task_id : i \in DOMAIN tasks} = AddedBefore(Len(task_trace) + 1)
    /\ \A i \in DOMAIN tasks :
        IF CompletedBefore(tasks[i].task_id, Len(task_trace) + 1)
        THEN tasks[i].completion_status = "completed" /\ tasks[i].completed_at # None
        ELSE tasks[i].completion_status = "pending" /\ tasks[i].completed_at = None
    /\ \A j \in DOMAIN task_trace :
        task_trace[j].op = "get_pending_tasks" =>
            /\ {task_trace[j].result[k].task.task_id : k \in DOMAIN task_trace[j].result}
                   = {t \in AddedBefore(j) : ~CompletedBefore(t, j)}
            /\ Len(task_trace[j].result)
                   = Cardinality({t \in AddedBefore(j) : ~CompletedBefore(t, j)})
            /\ \A k \in DOMAIN task_trace[j].result :
                task_trace[j].result[k].task.completion_status = "pending"

\* two tasks added, the first completed, and the pending tasks read: the
\* second task alone
C21_Witness ==
    /\ Len(task_trace) = 4
    /\ task_trace[1].op = "add_task"
    /\ task_trace[2].op = "add_task"
    /\ task_trace[3].op = "complete_task" /\ task_trace[3].task_id = 1
    /\ task_trace[4].op = "get_pending_tasks"
    /\ Len(task_trace[4].result) = 1
    /\ task_trace[4].result[1].task.task_id = 2
    /\ tasks[1].completion_status = "completed"

(* ----------------- properties: prediction cache, continued ------------- *)
\* the two texts have the same characters once case-folded
SameFolded(a, b) == chars(lower(a)) = chars(lower(b))

\* the add_to_cache calls before position i for a text that folds to the same
EarlierAdds(text, i) ==
    {j \in 1..(i - 1) : /\ cache_trace[j].op = "add_to_cache"
                        /\ SameFolded(cache_trace[j].task_description, text)}

\* C22: the cache key depends only on the case-folded text.  A lookup hits
\* exactly when an entry was inserted before with a text that is the same up
\* to letter case, and returns what that insert stored; an insert is refused
\* exactly when one was made before with a text that is the same up to letter
\* case; and texts that differ after case-folding never share an entry: no
\* two entries fold to the same text, and no lookup or insert with a text that
\* folds differently touches an entry.
C22_KeyIsCaseFoldedText ==
    /\ \A i \in DOMAIN cache_trace :
        LET call == cache_trace[i]
            earlier == EarlierAdds(call.task_description, i)
        IN  /\ call.op = "check_cache" =>
                IF earlier = {}
                THEN call.result = <<FALSE, None, None>>
                ELSE LET first == cache_trace[CHOOSE j \in earlier : \A k \in earlier : j <= k]
                     IN  call.result = <<TRUE, first.predicted_category, first.predicted_priority>>
            /\ call.op = "add_to_cache" => call.result = (earlier = {})
    /\ \A r, q \in DOMAIN prediction_cache :
        r # q => ~SameFolded(prediction_cache[r].task_description,
                             prediction_cache[q].task_description)
    /\ \A r \in DOMAIN prediction_cache :
        prediction_cache[r].cache_hit_count =
            Cardinality({j \in DOMAIN cache_trace :
                            /\ cache_trace[j].op = "check_cache"
                            /\ cache_trace[j].result[1] = TRUE
                            /\ SameFolded(cache_trace[j].task_description,
                                          prediction_cache[r].task_description)})

\* an entry inserted as 'Mold' is hit by a lookup of 'mold', an insert of
\* 'mold' is refused, and a lookup of 'label' misses
C22_Witness ==
    /\ Len(cache_trace) = 4
    /\ cache_trace[1].op = "add_to_cache" /\ cache_trace[1].task_description = <<"Mold">>
    /\ cache_trace[1].result = TRUE
    /\ cache_trace[2].op = "check_cache" /\ cache_trace[2].task_description = <<"mold">>
    /\ cache_trace[2].result[1] = TRUE
    /\ cache_trace[3].op = "add_to_cache" /\ cache_trace[3].task_description = <<"mold">>
    /\ cache_trace[3].result = FALSE
    /\ cache_trace[4].op = "check_cache" /\ cache_trace[4].task_description = <<"label">>
    /\ cache_trace[4].result[1] = FALSE
    /\ Len(prediction_cache) = 1
    /\ prediction_cache[1].cache_hit_count = 1

(* ---------------------- properties: persisted audit ------------------- *)
\* the safety evaluation of the task of a persisted row
EvaluationOf(task_id) ==
    apply_safety_rules(tasks[task_id].task_description,
                       PredictionOf(task_id).ai_category,
                       PredictionOf(task_id).ai_priority)

\* Rule 2, the critical-keyword override, fired in the evaluation of the task
KeywordOverrideFired(task_id) ==
    LET kw == check_safety_keywords(tasks[task_id].task_description)
        r1 == Rule1(InitialResult(kw, PredictionOf(task_id).ai_priority),
                    PredictionOf(task_id).ai_category)
    IN  Rule2(r1, kw.has_critical) # r1

\* C26: every audit row persisted for a created task carries the audit level
\* the safety evaluation produced for that task, and has level CRITICAL only
\* when the critical-keyword override fired for it, never for a category-floor
\* or always-critical-category override.
C26_PersistedAuditLevel ==
    \A i \in DOMAIN db_audit_log :
        /\ db_audit_log[i].audit_level = EvaluationOf(db_audit_log[i].task_id).audit_level
        /\ db_audit_log[i].audit_level = "CRITICAL" =>
                KeywordOverrideFired(db_audit_log[i].task_id)

(* ------------------- properties: order of store writes ----------------- *)
RowsOf(table, task_id) == {i \in DOMAIN table : table[i].task_id = task_id}

\* C29: in every store state that submit_task calls produce, calls failing
\* midway included, the audit row of a task is written after its task row and
\* its prediction row: every audit row references a task that has a
\* prediction row, every prediction row references an existing task row, and
\* each successful submit_task has added exactly one task row, one prediction
\* row and one audit row.
C29_AuditWrittenLast ==
    /\ \A i \in DOMAIN db_audit_log :
        /\ RowsOf(predictions, db_audit_log[i].task_id) # {}
        /\ RowsOf(tasks, db_audit_log[i].task_id) # {}
    /\ \A i \in DOMAIN predictions : RowsOf(tasks, predictions[i].task_id) # {}
    /\ \A p \in Procs :
        pc[p] = "done" =>
            /\ Cardinality(RowsOf(tasks, local[p].task_id)) = 1
            /\ Cardinality(RowsOf(predictions, local[p].task_id)) = 1
            /\ Cardinality(RowsOf(db_audit_log, local[p].task_id)) = 1
    /\ \A p, q \in Procs :
        p # q /\ local[p].task_id # 0 => local[p].task_id # local[q].task_id
    /\ Len(db_audit_log) = Cardinality({p \in Procs : pc[p] = "done"})
    /\ Len(tasks) = Cardinality({p \in Procs : local[p].task_id # 0})
    /\ Len(db_audit_log) <= Len(predictions)
    /\ Len(predictions) <= Len(tasks)

\* one call is done; the other failed after its task row and before its
\* prediction row
C29_Witness ==
    \E p, q \in Procs :
        /\ pc[p] = "done"
        /\ pc[q] = "failed" /\ local[q].task_id # 0
        /\ RowsOf(predictions, local[q].task_id) = {}
        /\ Len(tasks) = 2 /\ Len(predictions) = 1 /\ Len(db_audit_log) = 1

====
